---- MODULE Spec2Model ----
(***************************************************************************)
(* Dominant-colour extraction (csharpseattle/DominantColors).              *)
(*                                                                         *)
(* The model follows src/cpp/main.cpp (the command line tool) and the      *)
(* Objective-C++ category of src/unnamed/part_001 (getDominantColors).     *)
(* Both contain the same engine: a binary tree of colour classes, a class  *)
(* buffer with one unsigned byte per pixel, and a loop of count-1 splits.  *)
(*                                                                         *)
(* Numbers.  The code works on doubles; the model works on exact           *)
(* rationals.  A cv::Mat of doubles is a record [num, den]: the matrix     *)
(* num/den.  den = 0 is the result of the division by a zero pixel count   *)
(* (NaN).  cv::eigen is modelled on symmetric matrices of rank <= 1, where *)
(* the top eigenvalue is the trace and the top eigenvector is parallel to  *)
(* any non-zero column; the images of the model have their colours on one  *)
(* line of colour space, which keeps every scatter matrix in that family.  *)
(* The orientation of the eigenvector returned by cv::eigen is not fixed   *)
(* by the code of the repository: it is an input of the split.             *)
(*                                                                         *)
(* The second part of the model is the CameraViewController of             *)
(* src/unnamed/part_000: its view life cycle, the serial session queue,    *)
(* the main queue and the capture session it drives.  It shares no state   *)
(* with the engine and has specifications of its own.                      *)
(***************************************************************************)
EXTENDS Integers, Sequences, FiniteSets, TLC

VARIABLES
    entry,      \* "main" (src/cpp/main.cpp) or "getDominantColors" (part_001)
    argc,       \* main: number of command line words
    img,        \* decoded pixel buffer, row major; << >> when there is no data
    rows, cols, \* img.rows, img.cols
    count,      \* requested number of colours
    pc,         \* position of the program
    classes,    \* class buffer: one unsigned byte per pixel
    nodes,      \* the nodes allocated with new, in allocation order; 1 = root
    next,       \* find_dominant_colors: the working pointer "next"
    nextid,     \* the int returned by get_next_classid for the pending split
    i,          \* loop counter of find_dominant_colors
    colors,     \* the dominant colours returned
    quantized,  \* get_quantized_image's result
    viewable,   \* get_viewable_image's result
    dom,        \* get_dominant_palette's result
    files,      \* files written by cv::imwrite
    report,     \* the message printed by the entry point, "" when none
    status,     \* what the entry point returned: exit code, "nil", "colors"
    previous,   \* the colours of the run before this one, << >> in a first run
    \* CameraViewController (src/unnamed/part_000)
    authorization,        \* AVCaptureDevice.authorizationStatus(for: .video)
    accessRequest,        \* requestAccess: "none", "pending", "granted", "denied"
    view,                 \* life cycle: "unloaded", "loaded", "appeared", "disappeared"
    setupResult,          \* "success", "notAuthorized", "configurationFailed"
    isSessionRunning,     \* the controller's copy of session.isRunning
    suspended,            \* sessionQueue is suspended
    sessionQueue,         \* the blocks waiting on the serial session queue
    mainQueue,            \* the blocks waiting on DispatchQueue.main
    session,              \* the AVCaptureSession: inputs, outputs, running, interrupted
    keyValueObservations, \* number of registered isRunning observations
    notificationObservers,\* the controller observes the session's notifications
    photoButton,          \* photoButton.isEnabled
    resumeButton,         \* resumeButton.isHidden
    alert,                \* the alert presented last, "none" before the first
    appearances,          \* calls of viewWillAppear so far
    disturbances,         \* interruptions and runtime errors so far
    taps                  \* taps on the resume button so far

controller == <<authorization, accessRequest, view, setupResult, isSessionRunning,
                suspended, sessionQueue, mainQueue, session, keyValueObservations,
                notificationObservers, photoButton, resumeButton, alert,
                appearances, disturbances, taps>>

vars == <<entry, argc, img, rows, cols, count, pc, classes, nodes, next,
          nextid, i, colors, quantized, viewable, dom, files, report, status,
          previous, controller>>

-----------------------------------------------------------------------------
(* Program constants *)

ByteRange == 256          \* uchar: values 0 .. 255
ColorScale == 255         \* color[k] / 255.0f
MaxColorCount == 255      \* count > 255 is rejected
RootClassId == 1          \* root->classid = 1, cv::Scalar(1)
max_color_count == 18     \* palette size of get_viewable_image
tile_size == 64           \* get_dominant_palette

NULL == 0

-----------------------------------------------------------------------------
(* Bounds of the explored inputs *)

MaxPixels == 3            \* images have at most this many pixels
MaxSmallCount == 4        \* counts 1 .. MaxSmallCount are explored on every image
LongPixels == 2           \* images of the long runs have at most this many pixels

\* Colours (B, G, R) on one line of colour space, direction (2, 1, -2).
Palette == { <<0, 0, 255>>, <<80, 40, 175>>, <<200, 100, 55>> }

\* the colours of the images of the long runs
LongPalette == { <<0, 0, 255>>, <<200, 100, 55>> }

-----------------------------------------------------------------------------
(* Arithmetic helpers *)

Abs(x) == IF x < 0 THEN -x ELSE x

\* Euclid's algorithm
Euclid[a \in Nat, b \in Nat] == IF b = 0 THEN a ELSE Euclid[b, a % b]

GCD(a, b) == Euclid[a, b]

\* F(v), with v evaluated once
With(v, F(_)) == CHOOSE r \in {F(x) : x \in {v}} : TRUE

\* conversion of an int to uchar
ToUchar(x) == x % ByteRange

\* truncation of a rational num/den (den > 0) toward zero
Trunc(num, den) == IF num >= 0 THEN num \div den ELSE -((-num) \div den)

Zero3 == <<0, 0, 0>>
Zero33 == <<Zero3, Zero3, Zero3>>

Dot(u, v) == u[1] * v[1] + u[2] * v[2] + u[3] * v[3]

VecAdd(u, v) == <<u[1] + v[1], u[2] + v[2], u[3] + v[3]>>

\* scaled * scaled.t()
Outer(u, v) == [r \in 1..3 |-> [c \in 1..3 |-> u[r] * v[c]]]

MatAdd(A, B) == [r \in 1..3 |-> [c \in 1..3 |-> A[r][c] + B[r][c]]]

Trace(A) == A[1][1] + A[2][2] + A[3][3]

\* a default-constructed cv::Mat (no data)
EmptyMat == [num |-> << >>, den |-> 0]

IsNaN(m) == m.den = 0

\* a / b > c / d for rationals with positive denominators
RatGt(an, ad, cn, cd) ==
    LET g == GCD(ad, cd)
    IN  an * (cd \div g) > cn * (ad \div g)


-----------------------------------------------------------------------------
(* cv::eigen on the covariance field of a node.  value: the largest          *)
(* eigenvalue (eigenvalues.at<double>(0)) as the rational value.num /        *)
(* value.den; vector: row 0 of the eigenvectors, up to a positive factor.    *)
(* sgn in {1, -1} is the orientation the library happens to return.          *)

FirstColumn(M) ==
    IF <<M[1][1], M[2][1], M[3][1]>> # Zero3 THEN <<M[1][1], M[2][1], M[3][1]>>
    ELSE IF <<M[1][2], M[2][2], M[3][2]>> # Zero3 THEN <<M[1][2], M[2][2], M[3][2]>>
    ELSE <<M[1][3], M[2][3], M[3][3]>>

\* the direction of v, as the shortest integer vector with that direction
Direction(v) ==
    LET g == GCD(GCD(Abs(v[1]), Abs(v[2])), Abs(v[3]))
    IN  IF g = 0 THEN <<1, 0, 0>> ELSE <<v[1] \div g, v[2] \div g, v[3] \div g>>

eigen(cov, sgn) ==
    IF IsNaN(cov)
    THEN [nan |-> TRUE, value |-> [num |-> 0, den |-> 0], vector |-> Zero3]
    ELSE LET d == Direction(FirstColumn(cov.num))
         IN  [nan |-> FALSE,
              value |-> [num |-> Trace(cov.num), den |-> cov.den],
              vector |-> <<sgn * d[1], sgn * d[2], sgn * d[3]>>]

-----------------------------------------------------------------------------
(* The tree: nodes[n] is the n-th node allocated; left and right are node    *)
(* numbers, NULL when absent.                                                *)

new_t_color_node == [classid |-> 0, mean |-> EmptyMat, covariance |-> EmptyMat,
                     left |-> NULL, right |-> NULL]

Root == 1

\* the children pointers of the nodes of a queue segment, in queue order
Pointers(ns, level) ==
    With(level, LAMBDA lv :
       [k \in 1..(2 * Len(lv)) |->
           IF k % 2 = 1 THEN ns[lv[(k + 1) \div 2]].left
                        ELSE ns[lv[k \div 2]].right])

MaxOf(S) == CHOOSE x \in S : \A y \in S : y <= x

\* The queue of a breadth-first walk holds the tree level by level: level is
\* the part of the queue that is one level of the tree.  The walks below are
\* unfolded eight levels at a time (a level after an empty level is empty).
Pushed(ns, level) == SelectSeq(Pointers(ns, level), LAMBDA n : n # NULL)

RECURSIVE NextClassIdWalk(_, _)
\* the nodes popped by the walk of get_next_classid, in order
NextClassIdWalk(ns, level) ==
    IF level = << >> THEN << >>
    ELSE LET l1 == Pushed(ns, level)
             l2 == Pushed(ns, l1)
             l3 == Pushed(ns, l2)
             l4 == Pushed(ns, l3)
             l5 == Pushed(ns, l4)
             l6 == Pushed(ns, l5)
             l7 == Pushed(ns, l6)
         IN  level \o l1 \o l2 \o l3 \o l4 \o l5 \o l6 \o l7
                   \o NextClassIdWalk(ns, Pushed(ns, l7))

\* faulty variant: maxid itself is returned, the largest id in use
get_next_classid_without_increment(ns, root) ==
    With(NextClassIdWalk(ns, <<root>>), LAMBDA popped :
       MaxOf({0} \cup {ns[popped[k]].classid : k \in 1..Len(popped)}))

\* maxid starts at 0 and is raised by every popped node with a larger classid
get_next_classid(ns, root) ==
    With(NextClassIdWalk(ns, <<root>>), LAMBDA popped :
       MaxOf({0} \cup {ns[popped[k]].classid : k \in 1..Len(popped)}) + 1)

RECURSIVE Accumulate_all(_, _, _, _)
\* faulty variant: the test of the pixel's class is missing
Accumulate_all(image, cls, classid, k) ==
    IF k = 0 THEN [sum |-> Zero3, outer |-> Zero33, pixcount |-> 0]
    ELSE LET acc == Accumulate_all(image, cls, classid, k - 1)
         IN  [sum |-> VecAdd(acc.sum, image[k]),
              outer |-> MatAdd(acc.outer, Outer(image[k], image[k])),
              pixcount |-> acc.pixcount + 1]

RECURSIVE Accumulate(_, _, _, _)
\* the sums over the pixels 1 .. k whose class is classid, in units of
\* 1/255 (sum) and 1/255^2 (outer)
Accumulate(image, cls, classid, k) ==
    IF k = 0 THEN [sum |-> Zero3, outer |-> Zero33, pixcount |-> 0]
    ELSE With(Accumulate(image, cls, classid, k - 1), LAMBDA acc :
            IF cls[k] # classid THEN acc
            ELSE [sum |-> VecAdd(acc.sum, image[k]),
                  outer |-> MatAdd(acc.outer, Outer(image[k], image[k])),
                  pixcount |-> acc.pixcount + 1])

\* the mean and covariance get_class_mean_cov stores in the node of class classid
get_class_mean_cov(image, cls, classid) ==
    With(Accumulate(image, cls, classid, Len(image)), LAMBDA acc :
       LET n == acc.pixcount
           mm == Outer(acc.sum, acc.sum)
       IN  [mean |-> [num |-> acc.sum, den |-> ColorScale * n],
            covariance |->
               [num |-> [r \in 1..3 |-> [c \in 1..3 |-> n * acc.outer[r][c] - mm[r][c]]],
                den |-> ColorScale * ColorScale * n]])

\* faulty variant: the statistics are stored in every node that carries the
\* class id of node, not in node alone
Estimate_by_classid(image, cls, ns, node) ==
    LET mc == get_class_mean_cov(image, cls, ns[node].classid)
    IN  [n \in DOMAIN ns |->
            IF ns[n].classid = ns[node].classid
            THEN [ns[n] EXCEPT !.mean = mc.mean, !.covariance = mc.covariance]
            ELSE ns[n]]

Estimate(image, cls, ns, node) ==
    LET mc == get_class_mean_cov(image, cls, ns[node].classid)
    IN  [ns EXCEPT ![node].mean = mc.mean, ![node].covariance = mc.covariance]

\* the nodes of a level that have both children, and those that do not
Internal(ns, level) ==
    SelectSeq(level, LAMBDA n : ns[n].left # NULL /\ ns[n].right # NULL)

Childless(ns, level) ==
    SelectSeq(level, LAMBDA n : ~(ns[n].left # NULL /\ ns[n].right # NULL))

\* the nodes pushed while the nodes of level are popped
Below(ns, level) == Pointers(ns, Internal(ns, level))

RECURSIVE LeavesWalk(_, _)
\* the nodes pushed onto leaf_nodes, in the order of the walk
LeavesWalk(ns, level) ==
    IF level = << >> THEN << >>
    ELSE LET l1 == Below(ns, level)
             l2 == Below(ns, l1)
             l3 == Below(ns, l2)
             l4 == Below(ns, l3)
             l5 == Below(ns, l4)
             l6 == Below(ns, l5)
             l7 == Below(ns, l6)
         IN  Childless(ns, level) \o Childless(ns, l1) \o Childless(ns, l2)
                \o Childless(ns, l3) \o Childless(ns, l4) \o Childless(ns, l5)
                \o Childless(ns, l6) \o Childless(ns, l7)
                \o LeavesWalk(ns, Below(ns, l7))

\* faulty variant: the leaves are returned in the reverse order of the walk
get_leaves_last_first(ns, root) ==
    With(LeavesWalk(ns, <<root>>), LAMBDA leaves :
       [k \in 1..Len(leaves) |-> leaves[Len(leaves) + 1 - k]])

get_leaves(ns, root) == LeavesWalk(ns, <<root>>)

\* faulty variant: val >= max_eigen, the last of several equal leaves is kept
Exceeds_or_equal(ns, node, best) ==
    LET e == eigen(ns[node].covariance, 1)
        m == IF best = NULL THEN [num |-> -1, den |-> 1]
             ELSE eigen(ns[best].covariance, 1).value
    IN  ~e.nan /\ ~RatGt(m.num, m.den, e.value.num, e.value.den)

\* faulty variant: !(val <= max_eigen), which a NaN eigenvalue satisfies
Exceeds_unless_below(ns, node, best) ==
    LET e == eigen(ns[node].covariance, 1)
        m == IF best = NULL THEN [num |-> -1, den |-> 1]
             ELSE eigen(ns[best].covariance, 1).value
    IN  e.nan \/ IsNaN(m) \/ RatGt(e.value.num, e.value.den, m.num, m.den)

\* val > max_eigen, for val the top eigenvalue of node and max_eigen that of
\* best (-1 when best = NULL: no leaf has replaced the initial value yet)
Exceeds(ns, node, best) ==
    LET e == eigen(ns[node].covariance, 1)
        m == IF best = NULL THEN [num |-> -1, den |-> 1]
             ELSE eigen(ns[best].covariance, 1).value
    IN  ~e.nan /\ RatGt(e.value.num, e.value.den, m.num, m.den)

RECURSIVE MaxEigenScan(_, _, _, _)
\* the node that last replaced ret during the visits of leaves[lo .. hi],
\* NULL when none did; the visits of the two halves are combined
MaxEigenScan(ns, leaves, lo, hi) ==
    IF lo > hi THEN NULL
    ELSE IF lo = hi
    THEN IF Exceeds(ns, leaves[lo], NULL) THEN leaves[lo] ELSE NULL
    ELSE With((lo + hi) \div 2, LAMBDA mid :
         With(MaxEigenScan(ns, leaves, lo, mid), LAMBDA a :
         With(MaxEigenScan(ns, leaves, mid + 1, hi), LAMBDA b :
            IF b # NULL /\ Exceeds(ns, b, a) THEN b ELSE a)))

\* faulty variant: the walk is skipped and the initial value of ret is returned
get_max_eigenvalue_node_fallback(ns, current) == current

get_max_eigenvalue_node(ns, current) ==
    IF ns[current].left = NULL /\ ns[current].right = NULL THEN current
    ELSE With(LeavesWalk(ns, <<current>>), LAMBDA leaves :
         With(MaxEigenScan(ns, leaves, 1, Len(leaves)), LAMBDA best :
            IF best = NULL THEN current ELSE best))

-----------------------------------------------------------------------------
(* partition_class: the class buffer and the tree after splitting node.      *)

\* faulty variant: the projection is compared with 0, not with eig * mean
GoesLeft_against_zero(e, mean, c) ==
    /\ ~e.nan
    /\ ~IsNaN(mean)
    /\ Dot(e.vector, c) <= 0

\* faulty variant: this_value < comparison_value, a tie goes to the right child
GoesLeft_strict(e, mean, c) ==
    /\ ~e.nan
    /\ ~IsNaN(mean)
    /\ Dot(e.vector, c) * mean.den < Dot(e.vector, mean.num) * ColorScale

\* this_value <= comparison_value for the pixel colour c: eig * (c / 255)
\* against eig * mean.  A comparison with NaN is false.
GoesLeft(e, mean, c) ==
    /\ ~e.nan
    /\ ~IsNaN(mean)
    /\ Dot(e.vector, c) * mean.den <= Dot(e.vector, mean.num) * ColorScale

\* faulty variant: the else branch is missing, the other pixels keep the parent's id
Relabel_without_else(image, cls, classid, e, mean, newidleft, newidright) ==
    [k \in 1..Len(cls) |->
        IF cls[k] = classid /\ GoesLeft(e, mean, image[k]) THEN newidleft
        ELSE cls[k]]

Relabel(image, cls, classid, e, mean, newidleft, newidright) ==
    [k \in 1..Len(cls) |->
        IF cls[k] # classid THEN cls[k]
        ELSE IF GoesLeft(e, mean, image[k]) THEN newidleft ELSE newidright]

\* faulty variant: only the left child is attached to the split node
partition_class_left_only(image, cls, ns, nextidarg, node, sgn) ==
    LET classid == ns[node].classid
        newidleft == ToUchar(nextidarg)
        newidright == ToUchar(newidleft + 1)
        e == eigen(ns[node].covariance, sgn)
        l == Len(ns) + 1
        grown == ns \o << [new_t_color_node EXCEPT !.classid = newidleft],
                          [new_t_color_node EXCEPT !.classid = newidright] >>
    IN  [classes |-> Relabel(image, cls, classid, e, ns[node].mean,
                             newidleft, newidright),
         nodes |-> [grown EXCEPT ![node].left = l]]

partition_class(image, cls, ns, nextidarg, node, sgn) ==
    LET classid == ns[node].classid
        newidleft == ToUchar(nextidarg)
        newidright == ToUchar(newidleft + 1)
        e == eigen(ns[node].covariance, sgn)
        l == Len(ns) + 1
        r == Len(ns) + 2
        grown == ns \o << [new_t_color_node EXCEPT !.classid = newidleft],
                          [new_t_color_node EXCEPT !.classid = newidright] >>
    IN  [classes |-> Relabel(image, cls, classid, e, ns[node].mean,
                             newidleft, newidright),
         nodes |-> [grown EXCEPT ![node].left = l, ![node].right = r]]

-----------------------------------------------------------------------------
(* Output builders.  nb is the byte a NaN double happens to convert to (the  *)
(* conversion of NaN to uchar is undefined).                                 *)

\* (uchar)(mean.at<double>(k) * 255)
Denormalize(mean, k, nb) ==
    IF IsNaN(mean) THEN nb
    ELSE ToUchar(Trunc(mean.num[k] * ColorScale, mean.den))

MeanColor(mean, nb) ==
    <<Denormalize(mean, 1, nb), Denormalize(mean, 2, nb), Denormalize(mean, 3, nb)>>

get_dominant_colors(ns, root, nb) ==
    With(get_leaves(ns, root), LAMBDA leaves :
       [k \in 1..Len(leaves) |-> MeanColor(ns[leaves[k]].mean, nb)])

\* ptr[x] after the loop over the leaves: every leaf of the pixel's class
\* writes its colour, so the write of the last such leaf stays; without one
\* the pixel keeps cv::Scalar(0)
QuantizePixel(ns, leaves, pixel_class, nb) ==
    LET hits == {k \in 1..Len(leaves) : ns[leaves[k]].classid = pixel_class}
    IN  IF hits = {} THEN Zero3
        ELSE MeanColor(ns[leaves[MaxOf(hits)]].mean, nb)

get_quantized_image(cls, nrows, ncols, ns, root, nb) ==
    With(get_leaves(ns, root), LAMBDA leaves :
       [rows |-> nrows, cols |-> ncols,
        data |-> [k \in 1..Len(cls) |->
                    QuantizePixel(ns, leaves, cls[k], nb)]])

palette ==
    << <<0, 0, 0>>, <<255, 0, 0>>, <<0, 255, 0>>, <<0, 0, 255>>, <<255, 255, 0>>,
       <<0, 255, 255>>, <<255, 0, 255>>, <<128, 128, 128>>, <<128, 255, 128>>,
       <<32, 32, 32>>, <<255, 128, 128>>, <<128, 128, 255>>, <<255, 255, 255>>,
       <<32, 128, 128>>, <<128, 32, 128>>, <<128, 128, 32>>, <<128, 32, 32>>,
       <<32, 128, 32>> >>

\* faulty variant: an id beyond the palette is folded into it, not skipped
get_viewable_image_folded(cls, nrows, ncols) ==
    [rows |-> nrows, cols |-> ncols,
     data |-> [k \in 1..Len(cls) |-> palette[(cls[k] % max_color_count) + 1]],
     reported |-> FALSE]

\* palette[color] is palette[color + 1] of the 1-based sequence
get_viewable_image(cls, nrows, ncols) ==
    [rows |-> nrows, cols |-> ncols,
     data |-> [k \in 1..Len(cls) |->
                 IF cls[k] >= max_color_count THEN Zero3 ELSE palette[cls[k] + 1]],
     reported |-> \E k \in 1..Len(cls) : cls[k] >= max_color_count]

get_dominant_palette(cs) ==
    [rows |-> tile_size, cols |-> tile_size * Len(cs), tiles |-> cs]

\* part_001: the UIColor of a leaf keeps the mean as it is (no conversion)
UIColors(ns, root) ==
    With(get_leaves(ns, root), LAMBDA leaves :
       [k \in 1..Len(leaves) |-> ns[leaves[k]].mean])

-----------------------------------------------------------------------------
(* Inputs *)

Shapes(maxp) == {rc \in (1..maxp) \X (1..maxp) : rc[1] * rc[2] <= maxp}

\* a decoded image: its dimensions and its pixels, row major
ImagesOf(maxp, pal) ==
    UNION { { [rows |-> rc[1], cols |-> rc[2], data |-> d] :
                d \in [1..(rc[1] * rc[2]) -> pal] } : rc \in Shapes(maxp) }

\* cv::imread failed, or the UIImage has no pixels: data is NULL
NoImage == [rows |-> 0, cols |-> 0, data |-> << >>]

SmallCounts == {-1, 0} \cup (1..MaxSmallCount) \cup {MaxColorCount + 1}

\* the counts around the first one whose ids leave the byte range
LongCounts == { ByteRange \div 2, ByteRange \div 2 + 1, ByteRange \div 2 + 2 }

NoMat == [rows |-> 0, cols |-> 0, data |-> << >>]

\* the capture session of a new controller: nothing attached, not running
NewSession == [inputs |-> FALSE, outputs |-> FALSE, running |-> FALSE,
               interrupted |-> FALSE]

\* CameraViewController before viewDidLoad, for the authorization status st
Unloaded(st) ==
    /\ authorization = st
    /\ accessRequest = "none"
    /\ view = "unloaded"
    /\ setupResult = "success"
    /\ isSessionRunning = FALSE
    /\ suspended = FALSE
    /\ sessionQueue = << >>
    /\ mainQueue = << >>
    /\ session = NewSession
    /\ keyValueObservations = 0
    /\ notificationObservers = FALSE
    /\ photoButton = TRUE
    /\ resumeButton = TRUE
    /\ alert = "none"
    /\ appearances = 0
    /\ disturbances = 0
    /\ taps = 0

Start(images, counts) ==
    /\ entry \in {"main", "getDominantColors"}
    /\ argc \in IF entry = "main" THEN {2, 3} ELSE {3}
    /\ \E im \in images :
          /\ img = im.data
          /\ rows = im.rows
          /\ cols = im.cols
    /\ count \in counts
    /\ pc = "start"
    /\ classes = << >>
    /\ nodes = << >>
    /\ next = NULL
    /\ nextid = 0
    /\ i = 0
    /\ colors = << >>
    /\ quantized = NoMat
    /\ viewable = NoMat
    /\ dom = NoMat
    /\ files = {}
    /\ report = ""
    /\ status = "running"
    /\ previous = << >>
    /\ Unloaded("notDetermined")

Init == Start(ImagesOf(MaxPixels, Palette) \cup {NoImage}, SmallCounts)

InitLong == Start(ImagesOf(LongPixels, LongPalette), LongCounts)

-----------------------------------------------------------------------------
(* Entry points *)

engine == <<classes, nodes, next, nextid, i>>
outputs == <<colors, quantized, viewable, dom, files>>
inputs == <<entry, argc, img, rows, cols, count>>

\* faulty variant: the count check is count < 0, so 0 is accepted
main_accepts_zero ==
    /\ pc = "start"
    /\ entry = "main"
    /\ IF argc < 3
       THEN /\ report' = "usage"
            /\ status' = 0
            /\ pc' = "done"
       ELSE IF img = << >>
       THEN /\ report' = "unable to open the file"
            /\ status' = 1
            /\ pc' = "done"
       ELSE IF count < 0 \/ count > MaxColorCount
       THEN /\ report' = "color count"
            /\ status' = 2
            /\ pc' = "done"
       ELSE /\ pc' = "find_dominant_colors"
            /\ UNCHANGED <<report, status>>
    /\ UNCHANGED <<inputs, previous, controller, engine, outputs>>

\* main, up to the call of find_dominant_colors
main ==
    /\ pc = "start"
    /\ entry = "main"
    /\ IF argc < 3
       THEN /\ report' = "usage"
            /\ status' = 0
            /\ pc' = "done"
       ELSE IF img = << >>
       THEN /\ report' = "unable to open the file"
            /\ status' = 1
            /\ pc' = "done"
       ELSE IF count <= 0 \/ count > MaxColorCount
       THEN /\ report' = "color count"
            /\ status' = 2
            /\ pc' = "done"
       ELSE /\ pc' = "find_dominant_colors"
            /\ UNCHANGED <<report, status>>
    /\ UNCHANGED <<inputs, previous, controller, engine, outputs>>

\* faulty variant: the check of cvMat.data is missing
getDominantColors_unchecked_image ==
    /\ pc = "start"
    /\ entry = "getDominantColors"
    /\ IF count <= 0 \/ count > MaxColorCount
       THEN /\ report' = "color count"
            /\ status' = "nil"
            /\ pc' = "done"
       ELSE /\ pc' = "find_dominant_colors"
            /\ UNCHANGED <<report, status>>
    /\ UNCHANGED <<inputs, previous, controller, engine, outputs>>

\* getDominantColors, up to the call of find_dominant_colors
getDominantColors ==
    /\ pc = "start"
    /\ entry = "getDominantColors"
    /\ IF count <= 0 \/ count > MaxColorCount
       THEN /\ report' = "color count"
            /\ status' = "nil"
            /\ pc' = "done"
       ELSE IF img = << >>
       THEN /\ report' = "no image data"
            /\ status' = "nil"
            /\ pc' = "done"
       ELSE /\ pc' = "find_dominant_colors"
            /\ UNCHANGED <<report, status>>
    /\ UNCHANGED <<inputs, previous, controller, engine, outputs>>

-----------------------------------------------------------------------------
(* find_dominant_colors *)

\* faulty variant: the class buffer is created with cv::Scalar(0)
find_dominant_colors_scalar_zero ==
    /\ pc = "find_dominant_colors"
    /\ LET cls == [k \in 1..(rows * cols) |-> 0]
           root == [new_t_color_node EXCEPT !.classid = RootClassId]
       IN  /\ classes' = cls
           /\ nodes' = Estimate(img, cls, <<root>>, Root)
    /\ next' = Root
    /\ i' = 0
    /\ pc' = "loop"
    /\ UNCHANGED <<inputs, previous, controller, nextid, outputs, report, status>>

\* the class buffer, the root and its statistics
find_dominant_colors ==
    /\ pc = "find_dominant_colors"
    /\ LET cls == [k \in 1..(rows * cols) |-> RootClassId]
           root == [new_t_color_node EXCEPT !.classid = RootClassId]
       IN  /\ classes' = cls
           /\ nodes' = Estimate(img, cls, <<root>>, Root)
    /\ next' = Root
    /\ i' = 0
    /\ pc' = "loop"
    /\ UNCHANGED <<inputs, previous, controller, nextid, outputs, report, status>>

\* faulty variant: the loop runs while i < count
select_while_i_below_count ==
    /\ pc = "loop"
    /\ i < count
    /\ next' = get_max_eigenvalue_node(nodes, Root)
    /\ pc' = "get_next_classid"
    /\ UNCHANGED <<inputs, previous, controller, classes, nodes, nextid, i, outputs, report, status>>

\* next = get_max_eigenvalue_node(root)
select ==
    /\ pc = "loop"
    /\ i < count - 1
    /\ next' = get_max_eigenvalue_node(nodes, Root)
    /\ pc' = "get_next_classid"
    /\ UNCHANGED <<inputs, previous, controller, classes, nodes, nextid, i, outputs, report, status>>

\* the argument get_next_classid(root) of the call of partition_class
next_classid ==
    /\ pc = "get_next_classid"
    /\ nextid' = get_next_classid(nodes, Root)
    /\ pc' = "partition_class"
    /\ UNCHANGED <<inputs, previous, controller, classes, nodes, next, i, outputs, report, status>>

split ==
    /\ pc = "partition_class"
    /\ \E sgn \in {1, -1} :
          LET p == partition_class(img, classes, nodes, nextid, next, sgn)
          IN  /\ classes' = p.classes
              /\ nodes' = p.nodes
    /\ pc' = "mean_cov_left"
    /\ UNCHANGED <<inputs, previous, controller, next, nextid, i, outputs, report, status>>

\* get_class_mean_cov(img, classes, next->left)
mean_cov_left ==
    /\ pc = "mean_cov_left"
    /\ nodes' = Estimate(img, classes, nodes, nodes[next].left)
    /\ pc' = "mean_cov_right"
    /\ UNCHANGED <<inputs, previous, controller, classes, next, nextid, i, outputs, report, status>>

\* get_class_mean_cov(img, classes, next->right), and ++i
mean_cov_right ==
    /\ pc = "mean_cov_right"
    /\ nodes' = Estimate(img, classes, nodes, nodes[next].right)
    /\ i' = i + 1
    /\ pc' = "loop"
    /\ UNCHANGED <<inputs, previous, controller, classes, next, nextid, outputs, report, status>>

\* main.cpp: the colours, the three images, the three files; main returns 0
finish_main ==
    /\ pc = "loop"
    /\ ~(i < count - 1)
    /\ entry = "main"
    /\ \E nb \in {0, ByteRange - 1} :
          /\ colors' = get_dominant_colors(nodes, Root, nb)
          /\ quantized' = get_quantized_image(classes, rows, cols, nodes, Root, nb)
    /\ viewable' = get_viewable_image(classes, rows, cols)
    /\ dom' = get_dominant_palette(colors')
    /\ files' = {"./classification.png", "./quantized.png", "./palette.png"}
    /\ status' = 0
    /\ pc' = "done"
    /\ UNCHANGED <<inputs, previous, controller, engine, report>>

\* part_001: the UIColors of the leaves are returned
finish_getDominantColors ==
    /\ pc = "loop"
    /\ ~(i < count - 1)
    /\ entry = "getDominantColors"
    /\ colors' = UIColors(nodes, Root)
    /\ status' = "colors"
    /\ pc' = "done"
    /\ UNCHANGED <<inputs, previous, controller, engine, quantized, viewable, dom, files, report>>

Next ==
    \/ main
    \/ getDominantColors
    \/ find_dominant_colors
    \/ select
    \/ next_classid
    \/ split
    \/ mean_cov_left
    \/ mean_cov_right
    \/ finish_main
    \/ finish_getDominantColors

Spec == Init /\ [][Next]_vars

SpecLong == InitLong /\ [][Next]_vars

\* the short runs on every image and the long runs together
SpecAll == (Init \/ InitLong) /\ [][Next]_vars

\* main is started again with ./quantized.png, the file the run before wrote,
\* as its image and with the same count; cv::imread gives back the pixels
\* cv::imwrite stored (PNG is lossless)
requantize ==
    /\ pc = "done"
    /\ entry = "main"
    /\ "./quantized.png" \in files
    /\ previous = << >>
    /\ previous' = colors
    /\ img' = quantized.data
    /\ rows' = quantized.rows
    /\ cols' = quantized.cols
    /\ pc' = "start"
    /\ classes' = << >>
    /\ nodes' = << >>
    /\ next' = NULL
    /\ nextid' = 0
    /\ i' = 0
    /\ colors' = << >>
    /\ quantized' = NoMat
    /\ viewable' = NoMat
    /\ dom' = NoMat
    /\ files' = {}
    /\ report' = ""
    /\ status' = "running"
    /\ UNCHANGED <<entry, argc, count, controller>>

NextRequantize ==
    \/ Next
    \/ requantize

\* a run of main, followed by a run of main on the quantized image it wrote
SpecRequantize == (Init \/ InitLong) /\ [][NextRequantize]_vars

-----------------------------------------------------------------------------
(* CameraViewController (src/unnamed/part_000).  The controller talks to the *)
(* capture session on a serial queue and to the views on the main queue; a   *)
(* block is executed as one step, in the order of its queue.  The session    *)
(* notifies the observers of isRunning inside the call that changes it.      *)

MaxAppearances == 2       \* viewWillAppear is called at most this often
MaxDisturbances == 1      \* interruptions and runtime errors of the session
MaxTaps == 1              \* taps on the resume button

AuthorizationStatuses == {"authorized", "notDetermined", "denied"}

\* the main queue after the observers of isRunning have seen the change from
\* was to is: one block per registered observation
Observed(observations, was, is, queue) ==
    IF was = is THEN queue
    ELSE queue \o [k \in 1..observations |->
                     [kind |-> "photoButton", isEnabled |-> is]]

\* session.startRunning(); started tells whether the session came up
startRunning(s, started) ==
    IF s.running \/ ~started THEN s
    ELSE [s EXCEPT !.running = TRUE, !.interrupted = FALSE]

stopRunning(s) == [s EXCEPT !.running = FALSE, !.interrupted = FALSE]

\* the block at the head of the session queue can run
Runnable(block) ==
    /\ ~suspended
    /\ sessionQueue # << >>
    /\ Head(sessionQueue) = block

\* the block at the head of the main queue is of the given kind
OnMain(kind) ==
    /\ mainQueue # << >>
    /\ Head(mainQueue).kind = kind

engineState == <<entry, argc, img, rows, cols, count, pc, classes, nodes, next,
                 nextid, i, colors, quantized, viewable, dom, files, report,
                 status, previous>>

bounded == <<appearances, disturbances, taps>>

\* faulty variant: sessionQueue.suspend() is missing
viewDidLoad_without_suspend ==
    /\ view = "unloaded"
    /\ photoButton' = FALSE
    /\ IF authorization = "authorized"
       THEN UNCHANGED <<accessRequest, setupResult>>
       ELSE IF authorization = "notDetermined"
       THEN /\ accessRequest' = "pending"
            /\ UNCHANGED setupResult
       ELSE /\ setupResult' = "notAuthorized"
            /\ UNCHANGED accessRequest
    /\ sessionQueue' = Append(sessionQueue, "configureSession")
    /\ view' = "loaded"
    /\ UNCHANGED <<engineState, authorization, isSessionRunning, suspended, mainQueue,
                   session, keyValueObservations, notificationObservers,
                   resumeButton, alert, bounded>>

viewDidLoad ==
    /\ view = "unloaded"
    /\ photoButton' = FALSE
    /\ IF authorization = "authorized"
       THEN UNCHANGED <<accessRequest, setupResult, suspended>>
       ELSE IF authorization = "notDetermined"
       THEN /\ suspended' = TRUE
            /\ accessRequest' = "pending"
            /\ UNCHANGED setupResult
       ELSE /\ setupResult' = "notAuthorized"
            /\ UNCHANGED <<accessRequest, suspended>>
    /\ sessionQueue' = Append(sessionQueue, "configureSession")
    /\ view' = "loaded"
    /\ UNCHANGED <<engineState, authorization, isSessionRunning, mainQueue, session,
                   keyValueObservations, notificationObservers, resumeButton,
                   alert, bounded>>

\* the completion handler of AVCaptureDevice.requestAccess
requestAccess_completionHandler ==
    /\ accessRequest = "pending"
    /\ \E granted \in BOOLEAN :
          /\ accessRequest' = IF granted THEN "granted" ELSE "denied"
          /\ authorization' = IF granted THEN "authorized" ELSE "denied"
          /\ setupResult' = IF granted THEN setupResult ELSE "notAuthorized"
    /\ suspended' = FALSE
    /\ UNCHANGED <<engineState, view, isSessionRunning, sessionQueue, mainQueue,
                   session, keyValueObservations, notificationObservers,
                   photoButton, resumeButton, alert, bounded>>

viewWillAppear ==
    /\ view \in {"loaded", "disappeared"}
    /\ appearances < MaxAppearances
    /\ appearances' = appearances + 1
    /\ sessionQueue' = Append(sessionQueue, "viewWillAppear")
    /\ view' = "appeared"
    /\ UNCHANGED <<engineState, authorization, accessRequest, setupResult,
                   isSessionRunning, suspended, mainQueue, session,
                   keyValueObservations, notificationObservers, photoButton,
                   resumeButton, alert, disturbances, taps>>

viewWillDisappear ==
    /\ view = "appeared"
    /\ sessionQueue' = Append(sessionQueue, "viewWillDisappear")
    /\ view' = "disappeared"
    /\ UNCHANGED <<engineState, authorization, accessRequest, setupResult,
                   isSessionRunning, suspended, mainQueue, session,
                   keyValueObservations, notificationObservers, photoButton,
                   resumeButton, alert, bounded>>

\* the block of viewDidLoad on the session queue: configureSession()
configureSession ==
    /\ Runnable("configureSession")
    /\ sessionQueue' = Tail(sessionQueue)
    /\ IF setupResult # "success"
       THEN UNCHANGED <<setupResult, session, mainQueue>>
       ELSE \E outcome \in {"noInput", "noOutput", "complete"} :
               /\ setupResult' = IF outcome = "complete" THEN "success"
                                 ELSE "configurationFailed"
               /\ session' = [session EXCEPT !.inputs = outcome # "noInput",
                                             !.outputs = outcome = "complete"]
               /\ mainQueue' = IF outcome = "noInput" THEN mainQueue
                               ELSE Append(mainQueue, [kind |-> "videoOrientation"])
    /\ UNCHANGED <<engineState, authorization, accessRequest, view, isSessionRunning,
                   suspended, keyValueObservations, notificationObservers,
                   photoButton, resumeButton, alert, bounded>>

\* faulty variant: the observers are added after the session was started
viewWillAppear_block_observers_last ==
    /\ Runnable("viewWillAppear")
    /\ sessionQueue' = Tail(sessionQueue)
    /\ IF setupResult = "success"
       THEN \E started \in BOOLEAN :
               /\ session' = startRunning(session, started)
               /\ mainQueue' = Observed(keyValueObservations, session.running,
                                        session'.running, mainQueue)
               /\ keyValueObservations' = keyValueObservations + 1
               /\ notificationObservers' = TRUE
               /\ isSessionRunning' = session'.running
       ELSE /\ mainQueue' = Append(mainQueue,
                               [kind |-> "alert",
                                message |-> IF setupResult = "notAuthorized"
                                            THEN "privacy" ELSE "configuration"])
            /\ UNCHANGED <<session, keyValueObservations, notificationObservers,
                           isSessionRunning>>
    /\ UNCHANGED <<engineState, authorization, accessRequest, view, setupResult,
                   suspended, photoButton, resumeButton, alert, bounded>>

\* the block of viewWillAppear on the session queue
viewWillAppear_block ==
    /\ Runnable("viewWillAppear")
    /\ sessionQueue' = Tail(sessionQueue)
    /\ IF setupResult = "success"
       THEN \E started \in BOOLEAN :
               /\ keyValueObservations' = keyValueObservations + 1
               /\ notificationObservers' = TRUE
               /\ session' = startRunning(session, started)
               /\ mainQueue' = Observed(keyValueObservations', session.running,
                                        session'.running, mainQueue)
               /\ isSessionRunning' = session'.running
       ELSE /\ mainQueue' = Append(mainQueue,
                               [kind |-> "alert",
                                message |-> IF setupResult = "notAuthorized"
                                            THEN "privacy" ELSE "configuration"])
            /\ UNCHANGED <<session, keyValueObservations, notificationObservers,
                           isSessionRunning>>
    /\ UNCHANGED <<engineState, authorization, accessRequest, view, setupResult,
                   suspended, photoButton, resumeButton, alert, bounded>>

\* the block of viewWillDisappear on the session queue
viewWillDisappear_block ==
    /\ Runnable("viewWillDisappear")
    /\ sessionQueue' = Tail(sessionQueue)
    /\ IF setupResult = "success"
       THEN /\ session' = stopRunning(session)
            /\ mainQueue' = Observed(keyValueObservations, session.running,
                                     FALSE, mainQueue)
            /\ isSessionRunning' = FALSE
            /\ keyValueObservations' = 0
            /\ notificationObservers' = FALSE
       ELSE UNCHANGED <<session, mainQueue, isSessionRunning,
                        keyValueObservations, notificationObservers>>
    /\ UNCHANGED <<engineState, authorization, accessRequest, view, setupResult,
                   suspended, photoButton, resumeButton, alert, bounded>>

\* the resume button is tapped
resumeInterruptedSession ==
    /\ view = "appeared"
    /\ ~resumeButton
    /\ taps < MaxTaps
    /\ taps' = taps + 1
    /\ sessionQueue' = Append(sessionQueue, "resumeInterruptedSession")
    /\ UNCHANGED <<engineState, authorization, accessRequest, view, setupResult,
                   isSessionRunning, suspended, mainQueue, session,
                   keyValueObservations, notificationObservers, photoButton,
                   resumeButton, alert, appearances, disturbances>>

\* the block of resumeInterruptedSession on the session queue
resumeInterruptedSession_block ==
    /\ Runnable("resumeInterruptedSession")
    /\ sessionQueue' = Tail(sessionQueue)
    /\ \E started \in BOOLEAN :
          /\ session' = startRunning(session, started)
          /\ isSessionRunning' = session'.running
          /\ mainQueue' =
                Append(Observed(keyValueObservations, session.running,
                                session'.running, mainQueue),
                       IF session'.running
                       THEN [kind |-> "resumeButton", isHidden |-> TRUE]
                       ELSE [kind |-> "alert", message |-> "resume"])
    /\ UNCHANGED <<engineState, authorization, accessRequest, view, setupResult,
                   suspended, keyValueObservations, notificationObservers,
                   photoButton, resumeButton, alert, bounded>>

\* AVCaptureSessionRuntimeError: the session has stopped running
sessionRuntimeError ==
    /\ session.running
    /\ disturbances < MaxDisturbances
    /\ disturbances' = disturbances + 1
    /\ session' = [session EXCEPT !.running = FALSE]
    /\ mainQueue' = Observed(keyValueObservations, TRUE, FALSE, mainQueue)
    /\ \E mediaServicesWereReset \in BOOLEAN :
          IF ~notificationObservers
          THEN UNCHANGED <<sessionQueue, resumeButton>>
          ELSE IF mediaServicesWereReset
          THEN /\ sessionQueue' = Append(sessionQueue, "sessionRuntimeError")
               /\ UNCHANGED resumeButton
          ELSE /\ resumeButton' = FALSE
               /\ UNCHANGED sessionQueue
    /\ UNCHANGED <<engineState, authorization, accessRequest, view, setupResult,
                   isSessionRunning, suspended, keyValueObservations,
                   notificationObservers, photoButton, alert, appearances, taps>>

\* the block of sessionRuntimeError on the session queue
sessionRuntimeError_block ==
    /\ Runnable("sessionRuntimeError")
    /\ sessionQueue' = Tail(sessionQueue)
    /\ IF isSessionRunning
       THEN \E started \in BOOLEAN :
               /\ session' = startRunning(session, started)
               /\ isSessionRunning' = session'.running
               /\ mainQueue' = Observed(keyValueObservations, session.running,
                                        session'.running, mainQueue)
       ELSE /\ mainQueue' = Append(mainQueue,
                                   [kind |-> "resumeButton", isHidden |-> FALSE])
            /\ UNCHANGED <<session, isSessionRunning>>
    /\ UNCHANGED <<engineState, authorization, accessRequest, view, setupResult,
                   suspended, keyValueObservations, notificationObservers,
                   photoButton, resumeButton, alert, bounded>>

\* AVCaptureSessionWasInterrupted: the running session is interrupted
sessionWasInterrupted ==
    /\ session.running
    /\ disturbances < MaxDisturbances
    /\ disturbances' = disturbances + 1
    /\ session' = [session EXCEPT !.running = FALSE, !.interrupted = TRUE]
    /\ mainQueue' = Observed(keyValueObservations, TRUE, FALSE, mainQueue)
    /\ \E showResumeButton \in BOOLEAN :
          resumeButton' = IF notificationObservers /\ showResumeButton THEN FALSE
                          ELSE resumeButton
    /\ UNCHANGED <<engineState, authorization, accessRequest, view, setupResult,
                   isSessionRunning, suspended, sessionQueue,
                   keyValueObservations, notificationObservers, photoButton,
                   alert, appearances, taps>>

\* AVCaptureSessionInterruptionEnded: the interrupted session runs again
sessionInterruptionEnded ==
    /\ session.interrupted
    /\ session' = [session EXCEPT !.running = TRUE, !.interrupted = FALSE]
    /\ mainQueue' = Observed(keyValueObservations, FALSE, TRUE, mainQueue)
    /\ resumeButton' = IF notificationObservers THEN TRUE ELSE resumeButton
    /\ UNCHANGED <<engineState, authorization, accessRequest, view, setupResult,
                   isSessionRunning, suspended, sessionQueue,
                   keyValueObservations, notificationObservers, photoButton,
                   alert, bounded>>

\* the block the observer of isRunning put on the main queue
photoButton_block ==
    /\ OnMain("photoButton")
    /\ photoButton' = Head(mainQueue).isEnabled
    /\ mainQueue' = Tail(mainQueue)
    /\ UNCHANGED <<engineState, authorization, accessRequest, view, setupResult,
                   isSessionRunning, suspended, sessionQueue, session,
                   keyValueObservations, notificationObservers, resumeButton,
                   alert, bounded>>

\* a block on the main queue that shows or hides the resume button
resumeButton_block ==
    /\ OnMain("resumeButton")
    /\ resumeButton' = Head(mainQueue).isHidden
    /\ mainQueue' = Tail(mainQueue)
    /\ UNCHANGED <<engineState, authorization, accessRequest, view, setupResult,
                   isSessionRunning, suspended, sessionQueue, session,
                   keyValueObservations, notificationObservers, photoButton,
                   alert, bounded>>

\* a block on the main queue that presents an alert
alert_block ==
    /\ OnMain("alert")
    /\ alert' = Head(mainQueue).message
    /\ mainQueue' = Tail(mainQueue)
    /\ UNCHANGED <<engineState, authorization, accessRequest, view, setupResult,
                   isSessionRunning, suspended, sessionQueue, session,
                   keyValueObservations, notificationObservers, photoButton,
                   resumeButton, bounded>>

\* the block of configureSession that sets the orientation of the preview
videoOrientation_block ==
    /\ OnMain("videoOrientation")
    /\ mainQueue' = Tail(mainQueue)
    /\ UNCHANGED <<engineState, authorization, accessRequest, view, setupResult,
                   isSessionRunning, suspended, sessionQueue, session,
                   keyValueObservations, notificationObservers, photoButton,
                   resumeButton, alert, bounded>>

\* the blocks of the session queue and of the main queue
SessionQueueStep ==
    \/ configureSession
    \/ viewWillAppear_block
    \/ viewWillDisappear_block
    \/ resumeInterruptedSession_block
    \/ sessionRuntimeError_block

MainQueueStep ==
    \/ photoButton_block
    \/ resumeButton_block
    \/ alert_block
    \/ videoOrientation_block

NextCamera ==
    \/ viewDidLoad
    \/ requestAccess_completionHandler
    \/ viewWillAppear
    \/ viewWillDisappear
    \/ resumeInterruptedSession
    \/ sessionRuntimeError
    \/ sessionWasInterrupted
    \/ sessionInterruptionEnded
    \/ SessionQueueStep
    \/ MainQueueStep

\* no run of the engine: the controller alone
InitCamera ==
    /\ entry = "CameraViewController"
    /\ argc = 0
    /\ img = << >>
    /\ rows = 0
    /\ cols = 0
    /\ count = 0
    /\ pc = "camera"
    /\ classes = << >>
    /\ nodes = << >>
    /\ next = NULL
    /\ nextid = 0
    /\ i = 0
    /\ colors = << >>
    /\ quantized = NoMat
    /\ viewable = NoMat
    /\ dom = NoMat
    /\ files = {}
    /\ report = ""
    /\ status = "running"
    /\ previous = << >>
    /\ \E st \in AuthorizationStatuses : Unloaded(st)

SpecCamera == InitCamera /\ [][NextCamera]_vars

\* a queue that is not suspended runs its blocks
SpecCameraFair ==
    SpecCamera /\ WF_vars(SessionQueueStep) /\ WF_vars(MainQueueStep)

-----------------------------------------------------------------------------
(* Vocabulary of the properties *)

\* the engine was entered and has returned
Completed == pc = "done" /\ nodes # << >>

InLoopBody ==
    pc \in {"get_next_classid", "partition_class", "mean_cov_left", "mean_cov_right"}

\* the nodes without children
LeafSet == {n \in DOMAIN nodes : nodes[n].left = NULL /\ nodes[n].right = NULL}

LeafIds == {nodes[n].classid : n \in LeafSet}

IdsInBuffer == {classes[k] : k \in DOMAIN classes}

PixelsOf(cls, id) == {k \in DOMAIN cls : cls[k] = id}

RECURSIVE SumOver(_, _)
\* the sum of the values of the function f on the finite set S
SumOver(S, f) ==
    IF S = {} THEN 0
    ELSE LET k == CHOOSE x \in S : TRUE
         IN  f[k] + SumOver(S \ {k}, f)

\* sum of channel a, and of the products of channels a and b, over a class
ChannelSum(id, a) == SumOver(PixelsOf(classes, id), [k \in DOMAIN img |-> img[k][a]])

ProductSum(id, a, b) ==
    SumOver(PixelsOf(classes, id), [k \in DOMAIN img |-> img[k][a] * img[k][b]])

ValidCount == count >= 1 /\ count <= MaxColorCount

-----------------------------------------------------------------------------
(* C1: for every valid target count N, after the N-1 splits the tree has     *)
(* exactly N leaves, and the engine returns exactly N colours, one for each  *)
(* leaf.                                                                     *)
C1_ExactlyNColors ==
    /\ (pc = "loop" /\ i = count - 1) => Cardinality(LeafSet) = count
    /\ Completed =>
          /\ Len(colors) = count
          /\ Cardinality(LeafSet) = count
          /\ LET leaves == get_leaves(nodes, Root)
             IN  /\ Len(leaves) = count
                 /\ {leaves[k] : k \in 1..Len(leaves)} = LeafSet

C1_Witness ==
    /\ Completed
    /\ count = 3
    /\ Len(colors) = 3
    /\ Cardinality({img[k] : k \in DOMAIN img}) = 3

TotalPartition ==
    LET parent == nodes[next].classid
        l == nodes'[nodes'[next].left].classid
        r == nodes'[nodes'[next].right].classid
    IN  /\ PixelsOf(classes', parent) = {}
        /\ \A k \in PixelsOf(classes, parent) : classes'[k] \in {l, r}
        /\ l # r
        /\ Cardinality(PixelsOf(classes, parent))
              = Cardinality(PixelsOf(classes', l)) + Cardinality(PixelsOf(classes', r))

C3_TotalPartition ==
    [][(pc = "partition_class" /\ pc' = "mean_cov_left") => TotalPartition]_vars

(* C4: for any target count in 1..255 the class ids are handed out in        *)
(* strictly increasing order: a node allocated later has a larger id, and    *)
(* the pair of ids of a pending split is larger than every id in the tree.   *)
C4_IdsStrictlyIncreasing ==
    /\ \A a \in DOMAIN nodes :
          a + 1 \in DOMAIN nodes => nodes[a].classid < nodes[a + 1].classid
    /\ pc = "partition_class" =>
          /\ \A n \in DOMAIN nodes : nodes[n].classid < ToUchar(nextid)
          /\ ToUchar(nextid) < ToUchar(ToUchar(nextid) + 1)

(* C5: for any target count in 1..255 the byte-sized classId of a node is    *)
(* unique among the nodes of the tree, and the two ids passed to a split are *)
(* not in the tree yet.                                                      *)
C5_IdsUnique ==
    /\ Cardinality({nodes[n].classid : n \in DOMAIN nodes}) = Len(nodes)
    /\ pc = "partition_class" =>
          /\ ToUchar(nextid) # ToUchar(ToUchar(nextid) + 1)
          /\ \A n \in DOMAIN nodes :
                nodes[n].classid
                   \notin {ToUchar(nextid), ToUchar(ToUchar(nextid) + 1)}

(* C6: with a target count of 1 the loop body is never entered, the root is  *)
(* the only node, the class buffer stays uniformly 1, and the one colour     *)
(* returned is the mean of all pixels (as a byte triple: its integer part).  *)
C6_SingleColorIsMean ==
    count = 1 =>
       /\ ~InLoopBody
       /\ Len(nodes) <= 1
       /\ \A k \in DOMAIN classes : classes[k] = RootClassId
       /\ Completed =>
             /\ Len(colors) = 1
             /\ Len(classes) = Len(img)
             /\ \A a \in 1..3 :
                   LET total == SumOver(DOMAIN img, [k \in DOMAIN img |-> img[k][a]])
                   IN  IF entry = "main"
                       THEN /\ colors[1][a] * Len(img) <= total
                            /\ total < (colors[1][a] + 1) * Len(img)
                       ELSE /\ colors[1].den > 0
                            /\ colors[1].num[a] * (ColorScale * Len(img))
                                  = total * colors[1].den

C6_Witness ==
    /\ Completed
    /\ count = 1
    /\ entry = "main"
    /\ Len(img) = 2
    /\ img[1] # img[2]

\* the leaves whose statistics have been stored
EstimatedLeaves == {n \in LeafSet : nodes[n].mean # EmptyMat}

\* mean = sum / pixelCount for the pixels of the node's class, colours / 255
MeanIsClassMean(n) ==
    LET id == nodes[n].classid
        cnt == Cardinality(PixelsOf(classes, id))
        m == nodes[n].mean
    IN  /\ m.den % ColorScale = 0
        /\ \A a \in 1..3 :
              m.num[a] * cnt = ChannelSum(id, a) * (m.den \div ColorScale)

\* covariance = scale * (sumOuterProduct - sum * sum^T / pixelCount), where
\* the stored matrix is num / den and the sums are over colours / 255;
\* scale = 1 / pixelCount is the centered second moment
CovarianceIs(n, perPixel) ==
    LET id == nodes[n].classid
        cnt == Cardinality(PixelsOf(classes, id))
        c == nodes[n].covariance
        unit == ColorScale * ColorScale
        scale == IF perPixel THEN cnt ELSE 1
    IN  /\ c.den % unit = 0
        /\ \A a, b \in 1..3 :
              c.num[a][b] * cnt * scale
                 = (cnt * ProductSum(id, a, b) - ChannelSum(id, a) * ChannelSum(id, b))
                      * (c.den \div unit)

InvalidCount == count <= 0 \/ count > MaxColorCount

NoWork == classes = << >> /\ nodes = << >> /\ files = {} /\ colors = << >>

(* C8 as stated: with a colour count outside 1..255 main returns 2 and       *)
(* getDominantColors returns nil, and the engine is never entered: no class  *)
(* buffer, no node, no file.                                                 *)
C8_InvalidCountExit2 ==
    (InvalidCount /\ argc >= 3) =>
       /\ pc \in {"start", "done"}
       /\ NoWork
       /\ pc = "done" =>
             IF entry = "main" THEN status = 2 ELSE status = "nil"

(* C8 amended: with a colour count outside 1..255 the engine is never        *)
(* entered (no class buffer, no node, no file); getDominantColors returns    *)
(* nil, and main returns 2 when the image could be read and 1 (the report    *)
(* of the unreadable image, which comes first) when it could not.            *)
C8_InvalidCountReported ==
    (InvalidCount /\ argc >= 3) =>
       /\ pc \in {"start", "done"}
       /\ NoWork
       /\ pc = "done" =>
             IF entry = "main"
             THEN /\ status = IF img = << >> THEN 1 ELSE 2
                  /\ report = IF img = << >> THEN "unable to open the file"
                                             ELSE "color count"
             ELSE status = "nil" /\ report = "color count"

C8_Witness ==
    /\ pc = "done"
    /\ entry = "main"
    /\ count = MaxColorCount + 1
    /\ img # << >>
    /\ status = 2

(* C9: an image without pixel data is reported before any processing: main   *)
(* returns 1 and getDominantColors returns nil without entering the engine,  *)
(* so the engine only runs on a non-empty pixel buffer and a count in        *)
(* 1..255.                                                                   *)
C9_EmptyImageReported ==
    /\ (img = << >> /\ argc >= 3) =>
          /\ pc \in {"start", "done"}
          /\ NoWork
          /\ pc = "done" =>
                IF entry = "main" THEN status = 1 ELSE status = "nil"
    /\ (pc \notin {"start", "done"} \/ nodes # << >>) =>
          /\ Len(img) > 0
          /\ Len(img) = rows * cols
          /\ ValidCount

C9_Witness ==
    /\ pc = "done"
    /\ img = << >>
    /\ entry = "getDominantColors"
    /\ ValidCount
    /\ status = "nil"
    /\ report = "no image data"

\* the leaves whose classId is the label of pixel k
LeavesOfPixel(k) == {n \in LeafSet : nodes[n].classid = classes[k]}

(* C10: the quantized image has the dimensions of the class buffer; at       *)
(* completion every pixel's label is the classId of exactly one leaf, and    *)
(* the pixel holds the de-normalized mean of that leaf.                      *)
C10_QuantizedFromOneLeaf ==
    (Completed /\ entry = "main") =>
       /\ quantized.rows = rows
       /\ quantized.cols = cols
       /\ Len(quantized.data) = Len(classes)
       /\ \A k \in DOMAIN classes :
             /\ Cardinality(LeavesOfPixel(k)) = 1
             /\ \A n \in LeavesOfPixel(k) :
                   /\ ~IsNaN(nodes[n].mean)
                   /\ \A a \in 1..3 :
                         quantized.data[k][a]
                            = (nodes[n].mean.num[a] * ColorScale) \div nodes[n].mean.den

-----------------------------------------------------------------------------
\* the colours of the pixels of the image
ImageColors == {img[k] : k \in DOMAIN img}

\* the returned colour col is the pixel colour c up to tol units of a channel
\* (main returns bytes, getDominantColors the means of the colours / 255)
ColorWithin(col, c, tol) ==
    IF entry = "main"
    THEN \A a \in 1..3 : Abs(col[a] - c[a]) <= tol
    ELSE /\ col.den > 0
         /\ \A a \in 1..3 :
               Abs(col.num[a] * ColorScale - c[a] * col.den) <= tol * col.den

(* C11: for an image whose pixels all have one colour and a target count of  *)
(* 3, the engine returns 3 colours, each equal or near-equal (within one     *)
(* unit per channel) to that colour.                                         *)
C11_UniformImageThreeEqual ==
    (Completed /\ count = 3 /\ Cardinality(ImageColors) = 1) =>
       /\ Len(colors) = 3
       /\ \A k \in DOMAIN colors : ColorWithin(colors[k], img[1], 1)

\* the colours a run of main returned, as a set
ColorSet(cs) == {cs[k] : k \in DOMAIN cs}

(* C12: re-quantization is stable: a run with target count N on the          *)
(* quantized image of a first run with the same N returns the same set of    *)
(* dominant colours as the first run.                                        *)
C12_RequantizationStable ==
    (Completed /\ previous # << >>) => ColorSet(colors) = ColorSet(previous)

\* the pixels are labelled by colour: same label exactly for the same colour
SeparatedByColor ==
    \A j, k \in DOMAIN classes : (classes[j] = classes[k]) <=> (img[j] = img[k])

(* C13: for an image with exactly two distinct colours and a target count of *)
(* 2, the single split separates the pixels by colour, and the two colours   *)
(* returned are exactly the two colours of the image.                        *)
C13_TwoColorsSeparated ==
    (count = 2 /\ Cardinality(ImageColors) = 2) =>
       /\ Len(nodes) = 3 => SeparatedByColor
       /\ Completed =>
             /\ Len(nodes) = 3
             /\ Len(colors) = 2
             /\ \A k \in DOMAIN colors :
                   \E c \in ImageColors : ColorWithin(colors[k], c, 0)
             /\ \A c \in ImageColors :
                   \E k \in DOMAIN colors : ColorWithin(colors[k], c, 0)

C13_Witness ==
    /\ Completed
    /\ count = 2
    /\ entry = "main"
    /\ Len(img) = 3
    /\ Cardinality(ImageColors) = 2
    /\ ColorSet(colors) = ImageColors

(* C14: get_viewable_image never indexes its 18-entry palette out of range:  *)
(* a pixel whose class id is 18 or more is reported and left black, a pixel  *)
(* with a smaller id gets the palette entry of its id; the image has the     *)
(* dimensions of the class buffer, and the dominant colours are still the    *)
(* colours of the N leaves.                                                  *)
C14_ViewableWithinPalette ==
    (Completed /\ entry = "main") =>
       /\ viewable.rows = rows
       /\ viewable.cols = cols
       /\ Len(viewable.data) = Len(classes)
       /\ \A k \in DOMAIN classes :
             IF classes[k] >= max_color_count
             THEN /\ viewable.reported
                  /\ viewable.data[k] = Zero3
             ELSE /\ classes[k] + 1 \in DOMAIN palette
                  /\ viewable.data[k] = palette[classes[k] + 1]
       /\ viewable.reported => \E k \in DOMAIN classes : classes[k] >= max_color_count
       /\ Len(colors) = count
       /\ \E nb \in {0, ByteRange - 1} : colors = get_dominant_colors(nodes, Root, nb)

C14_Witness ==
    /\ Completed
    /\ entry = "main"
    /\ viewable.reported
    /\ \E k \in DOMAIN classes :
          /\ classes[k] >= max_color_count
          /\ viewable.data[k] = Zero3
    /\ Len(colors) = count

\* between driver steps: before an iteration of the loop, or after the last
BetweenSteps == pc = "loop" \/ Completed

(* C15 as stated: between driver steps the set of ids present in the class   *)
(* buffer is the set of classIds of the leaves of the tree.                  *)
C15_BufferIdsAreLeafIds ==
    BetweenSteps => IdsInBuffer = LeafIds

(* C15 amended: between driver steps every id present in the class buffer is *)
(* the classId of a leaf; a leaf whose classId is absent from the buffer has *)
(* no pixel (its statistics are the division by a zero pixel count); the two *)
(* sets are equal as long as the leaves are not more than the distinct       *)
(* colours of the image.                                                     *)
C15_BufferIdsAmongLeafIds ==
    BetweenSteps =>
       /\ IdsInBuffer \subseteq LeafIds
       /\ \A n \in LeafSet :
             nodes[n].classid \notin IdsInBuffer => IsNaN(nodes[n].mean)
       /\ Cardinality(LeafSet) <= Cardinality(ImageColors) => IdsInBuffer = LeafIds

C15_Witness ==
    /\ pc = "loop"
    /\ i = 2
    /\ Cardinality(LeafSet) = 3
    /\ IdsInBuffer = LeafIds

\* the nodes with two children
InternalSet == {n \in DOMAIN nodes : nodes[n].left # NULL /\ nodes[n].right # NULL}

(* C16: in every reachable state each node of the tree has either no child   *)
(* or two: the two children of a node are created together, they are two     *)
(* different nodes, and no node has a left child without a right child or a  *)
(* right child without a left child.                                         *)
C16_ZeroOrTwoChildren ==
    /\ DOMAIN nodes = LeafSet \cup InternalSet
    /\ \A n \in InternalSet :
          /\ nodes[n].left \in DOMAIN nodes
          /\ nodes[n].right \in DOMAIN nodes
          /\ nodes[n].left # nodes[n].right
    /\ Cardinality(InternalSet) + 1 = Cardinality(LeafSet) \/ nodes = << >>

C16_Witness ==
    /\ pc = "mean_cov_left"
    /\ Cardinality(InternalSet) = 2
    /\ Cardinality(LeafSet) = 3

\* the children of a node that has children stay the children it has
ChildrenKept ==
    \A n \in InternalSet :
       /\ n \in DOMAIN nodes'
       /\ nodes'[n].left = nodes[n].left
       /\ nodes'[n].right = nodes[n].right

(* C17: the node the driver passes to partition_class is always a leaf of    *)
(* the current tree (get_max_eigenvalue_node never returns a node with       *)
(* children, its initial value, the root, included), and the children of a   *)
(* node are never replaced: a node becomes internal once.                    *)
C17_SplitNodeIsLeaf ==
    /\ [](pc \in {"get_next_classid", "partition_class"} => next \in LeafSet)
    /\ [][ChildrenKept]_vars

C17_Witness ==
    /\ pc = "partition_class"
    /\ i = 2
    /\ next \in LeafSet
    /\ next # Root
    /\ Root \in InternalSet

\* the pixels whose label a step changes
Relabelled == {k \in DOMAIN classes : classes'[k] # classes[k]}

(* C18: the class buffer is written only by partition_class, and a call of   *)
(* partition_class changes the label of exactly the pixels that carried the  *)
(* classId of the split node; every other step of the engine and the output  *)
(* builders leave the buffer as it is.                                       *)
C18_BufferFrame ==
    [][ IF pc = "partition_class"
        THEN /\ DOMAIN classes' = DOMAIN classes
             /\ Relabelled = PixelsOf(classes, nodes[next].classid)
        ELSE pc \in {"loop", "get_next_classid", "mean_cov_left", "mean_cov_right"}
                => classes' = classes ]_vars

\* a sequential program: a step that can be taken is taken
SpecFair == Spec /\ WF_vars(Next)

LeafCount == Cardinality(LeafSet)

\* the steps of find_dominant_colors follow each other in the order of the loop body
StepOrder ==
    /\ pc = "loop" =>
          /\ UNCHANGED <<classes, nodes, i>>
          /\ IF i < count - 1
             THEN pc' = "get_next_classid" /\ next' \in LeafSet
             ELSE pc' = "done"
    /\ pc = "get_next_classid" =>
          /\ pc' = "partition_class"
          /\ UNCHANGED <<classes, nodes, next, i>>
    /\ pc = "partition_class" =>
          /\ pc' = "mean_cov_left"
          /\ LeafCount' = LeafCount + 1
          /\ next \in LeafSet /\ next \in InternalSet'
          /\ UNCHANGED <<next, i>>
    /\ pc = "mean_cov_left" =>
          /\ pc' = "mean_cov_right"
          /\ nodes' = Estimate(img, classes, nodes, nodes[next].left)
          /\ UNCHANGED <<classes, next, i>>
    /\ pc = "mean_cov_right" =>
          /\ pc' = "loop"
          /\ nodes' = Estimate(img, classes, nodes, nodes[next].right)
          /\ i' = i + 1
          /\ UNCHANGED <<classes, next>>

(* C19: the driver always terminates in Done; when the engine ran, it made   *)
(* exactly count - 1 split iterations, each split added exactly one leaf,    *)
(* and every iteration took its steps in the order select, next id, split,   *)
(* estimate left, estimate right, on the tree and buffer the previous        *)
(* iteration left.                                                           *)
C19_TerminatesAfterSplits ==
    /\ <>(pc = "done")
    /\ [](Completed => (i = count - 1 /\ LeafCount = count))
    /\ [](pc = "loop" => (i <= count - 1 /\ LeafCount = i + 1))
    /\ [][StepOrder]_vars

C19_Witness ==
    /\ Completed
    /\ count = 4
    /\ i = 3
    /\ LeafCount = 4

\* the statistics of node n are the estimator's result on the current buffer
Fresh(n) ==
    LET mc == get_class_mean_cov(img, classes, nodes[n].classid)
    IN  /\ nodes[n].mean = mc.mean
        /\ nodes[n].covariance = mc.covariance

\* a node that has children keeps its mean and covariance
StatisticsKept ==
    \A n \in InternalSet :
       /\ n \in DOMAIN nodes'
       /\ nodes'[n].mean = nodes[n].mean
       /\ nodes'[n].covariance = nodes[n].covariance

(* C20: whenever the leaves are examined by get_max_eigenvalue_node or read  *)
(* by the output builders (between driver steps), the mean and covariance of *)
(* every leaf are the estimator's result over the current buffer for its     *)
(* classId; a node that was split keeps the mean and covariance it had.      *)
C20_LeafStatisticsFresh ==
    /\ [](BetweenSteps => \A n \in LeafSet : Fresh(n))
    /\ [][StatisticsKept]_vars

-----------------------------------------------------------------------------
(* partition_class, pixel by pixel.                                          *)

\* eig * (c / 255) and eig * mean over the common denominator 255 * mean.den
ProjectionOfPixel(e, mean, c) == Dot(e.vector, c) * mean.den

ComparisonValue(e, mean) == Dot(e.vector, mean.num) * ColorScale

\* the step of partition_class sends every pixel of the split class to the
\* left child's id when its projection is at most that of the class mean and
\* to the right child's id otherwise, for one of the two signs of the vector
SplitByProjection ==
    (pc = "partition_class" /\ pc' = "mean_cov_left") =>
        LET node == nodes[next]
            mean == node.mean
            newidleft == nodes'[nodes'[next].left].classid
            newidright == nodes'[nodes'[next].right].classid
        IN  /\ newidleft # newidright
            /\ \E sgn \in {1, -1} :
                  LET e == eigen(node.covariance, sgn)
                  IN  \A k \in PixelsOf(classes, node.classid) :
                         /\ ProjectionOfPixel(e, mean, img[k]) <= ComparisonValue(e, mean)
                               <=> classes'[k] = newidleft
                         /\ ProjectionOfPixel(e, mean, img[k]) > ComparisonValue(e, mean)
                               <=> classes'[k] = newidright

\* C21: partition_class relabels a pixel of the split class to the left child's
\* id exactly when its projection onto the top eigenvector is less than or
\* equal to the projection of the class mean, and to the right child's id
\* otherwise; a pixel whose projection equals the threshold goes left.
C21_SplitByProjection == [][SplitByProjection]_vars

\* a class of one colour has just been split: every projection equals the
\* threshold, and every pixel carries the left child's id
C21_Witness ==
    /\ pc = "mean_cov_left"
    /\ i = 0
    /\ Len(img) = 2
    /\ Cardinality(ImageColors) = 1
    /\ \A k \in 1..Len(img) : classes[k] = nodes[nodes[Root].left].classid

-----------------------------------------------------------------------------
(* get_max_eigenvalue_node: the node handed to partition_class.              *)

\* the leaf has statistics cv::eigen yields an eigenvalue for
HasEigenvalue(n) == ~eigen(nodes[n].covariance, 1).nan

TopEigenvalue(n) == eigen(nodes[n].covariance, 1).value

\* the top eigenvalue of a is greater than that of b
EigenvalueAbove(a, b) ==
    RatGt(TopEigenvalue(a).num, TopEigenvalue(a).den,
          TopEigenvalue(b).num, TopEigenvalue(b).den)

\* C22: get_max_eigenvalue_node returns, among all current leaves, a leaf whose
\* covariance has the largest top eigenvalue; for a tree of one node it returns
\* the root; when several leaves share the largest eigenvalue the first one in
\* breadth-first, left-before-right order is returned.
C22_LargestEigenvalueFirstInOrder ==
    pc = "get_next_classid" =>
        IF Len(nodes) = 1 THEN next = Root
        ELSE With(get_leaves(nodes, Root), LAMBDA leaves :
                /\ next \in LeafSet
                /\ HasEigenvalue(next)
                /\ \E pos \in 1..Len(leaves) :
                      /\ leaves[pos] = next
                      /\ \A k \in 1..Len(leaves) :
                            HasEigenvalue(leaves[k]) =>
                               /\ ~EigenvalueAbove(leaves[k], next)
                               /\ k < pos => EigenvalueAbove(next, leaves[k]))

\* two leaves with pixels share the largest eigenvalue and the left one,
\* the first in the order of the walk, has been selected
C22_Witness ==
    /\ pc = "get_next_classid"
    /\ i = 1
    /\ HasEigenvalue(nodes[Root].left)
    /\ HasEigenvalue(nodes[Root].right)
    /\ ~EigenvalueAbove(nodes[Root].left, nodes[Root].right)
    /\ ~EigenvalueAbove(nodes[Root].right, nodes[Root].left)
    /\ next = nodes[Root].left

-----------------------------------------------------------------------------
(* partition_class on a class of one colour.                                 *)

\* the pixels carrying the id are all of one colour
UniformClass(cls, id) ==
    /\ PixelsOf(cls, id) # {}
    /\ Cardinality({img[k] : k \in PixelsOf(cls, id)}) = 1

\* the step of partition_class on a class of one colour attaches two new
\* nodes to the split node, hands every pixel of the class to one of them and
\* leaves the other one without pixels
UniformSplit ==
    (pc = "partition_class" /\ pc' = "mean_cov_left"
        /\ UniformClass(classes, nodes[next].classid)) =>
        /\ Len(nodes') = Len(nodes) + 2
        /\ nodes'[next].left \in DOMAIN nodes' \ DOMAIN nodes
        /\ nodes'[next].right \in DOMAIN nodes' \ DOMAIN nodes
        /\ nodes'[next].left # nodes'[next].right
        /\ LET P == PixelsOf(classes, nodes[next].classid)
               l == nodes'[nodes'[next].left].classid
               r == nodes'[nodes'[next].right].classid
           IN  \/ /\ \A k \in P : classes'[k] = l
                  /\ PixelsOf(classes', r) = {}
               \/ /\ \A k \in P : classes'[k] = r
                  /\ PixelsOf(classes', l) = {}

\* C23: splitting a leaf whose pixels all have the same colour is not an error:
\* partition_class completes, creates both children and assigns every pixel of
\* the class to a single child, leaving the other child with an empty pixel set.
C23_UniformLeafSplit == [][UniformSplit]_vars

\* the second split of an image of two colours has split a class of one
\* colour: one new leaf holds its pixels, the other holds none
C23_Witness ==
    /\ pc = "mean_cov_left"
    /\ i = 1
    /\ Cardinality(ImageColors) = 2
    /\ UniformClass(classes, nodes[nodes[next].left].classid)
    /\ PixelsOf(classes, nodes[nodes[next].right].classid) = {}

-----------------------------------------------------------------------------
(* get_class_mean_cov as a step of the driver.                               *)

\* the node the step of get_class_mean_cov at hand is called on
EstimatedNode == IF pc = "mean_cov_left" THEN nodes[next].left ELSE nodes[next].right

\* a call of get_class_mean_cov changes the mean and the covariance of its
\* node and nothing else, and a second call on the same inputs would store
\* the same two matrices again
EstimateOnlyWritesStatistics ==
    (pc \in {"mean_cov_left", "mean_cov_right"} /\ pc' # pc) =>
        /\ UNCHANGED <<img, rows, cols, classes>>
        /\ DOMAIN nodes' = DOMAIN nodes
        /\ \A n \in DOMAIN nodes : n # EstimatedNode => nodes'[n] = nodes[n]
        /\ nodes'[EstimatedNode].classid = nodes[EstimatedNode].classid
        /\ nodes'[EstimatedNode].left = nodes[EstimatedNode].left
        /\ nodes'[EstimatedNode].right = nodes[EstimatedNode].right
        /\ nodes'[EstimatedNode].mean # nodes[EstimatedNode].mean
        /\ Estimate(img', classes', nodes', EstimatedNode) = nodes'

-----------------------------------------------------------------------------
(* get_leaves and get_dominant_colors: the order of the leaves.              *)

\* the node n is a child of
ParentOf(n) == CHOOSE m \in DOMAIN nodes : nodes[m].left = n \/ nodes[m].right = n

RECURSIVE PathTo(_)
\* the turns from the root down to n: 0 for a left child, 1 for a right child
PathTo(n) ==
    IF n = Root THEN << >>
    ELSE Append(PathTo(ParentOf(n)), IF nodes[ParentOf(n)].left = n THEN 0 ELSE 1)

\* a comes before b in breadth-first order with the left child first: a is
\* nearer to the root, or as deep as b and to its left
BreadthFirstBefore(a, b) ==
    LET pa == PathTo(a)
        pb == PathTo(b)
    IN  \/ Len(pa) < Len(pb)
        \/ /\ Len(pa) = Len(pb)
           /\ \E j \in 1..Len(pa) :
                 /\ pa[j] < pb[j]
                 /\ \A h \in 1..(j - 1) : pa[h] = pb[h]

\* C25: get_leaves returns every node without children exactly once and no
\* internal node, in breadth-first order with the left child before the right
\* child; get_dominant_colors returns the colours of the leaves in that order.
C25_LeavesBreadthFirst ==
    nodes # << >> =>
        With(get_leaves(nodes, Root), LAMBDA leaves :
           /\ {leaves[k] : k \in 1..Len(leaves)} = LeafSet
           /\ Len(leaves) = Cardinality(LeafSet)
           /\ \A j, k \in 1..Len(leaves) :
                 j < k => BreadthFirstBefore(leaves[j], leaves[k])
           /\ Completed =>
                 /\ Len(colors) = Len(leaves)
                 /\ IF entry = "main"
                    THEN \E nb \in {0, ByteRange - 1} :
                            \A k \in 1..Len(leaves) :
                               colors[k] = MeanColor(nodes[leaves[k]].mean, nb)
                    ELSE \A k \in 1..Len(leaves) :
                            colors[k] = nodes[leaves[k]].mean)

\* a finished run of main with three leaves on two levels of the tree, their
\* colours pairwise different
C25_Witness ==
    /\ Completed
    /\ entry = "main"
    /\ Len(colors) = 3
    /\ Cardinality({colors[k] : k \in 1..3}) = 3
    /\ \E a, b \in LeafSet : Len(PathTo(a)) < Len(PathTo(b))

-----------------------------------------------------------------------------
(* The class ids of a run with at most 128 colours.                          *)

\* the largest count whose ids 1 .. 2 * count - 1 all fit into a byte
MaxCountWithoutWrap == ByteRange \div 2

\* the number of splits made so far
SplitCount == Cardinality(InternalSet)

\* C26: for a target count of at most 128, after k splits the ids in the tree
\* are exactly 1 .. 2k+1, get_next_classid returns 2k+2 for the next split, the
\* left child of that split gets this even id and the right child the odd id
\* after it, and the conversion of the id to a byte never wraps.
C26_IdsWithoutWrap ==
    (count <= MaxCountWithoutWrap /\ nodes # << >>) =>
        /\ {nodes[n].classid : n \in DOMAIN nodes} = 1..(2 * SplitCount + 1)
        /\ Len(nodes) = 2 * SplitCount + 1
        /\ pc = "partition_class" =>
              /\ SplitCount = i
              /\ nextid = 2 * SplitCount + 2
              /\ nextid + 1 < ByteRange
        /\ \A n \in InternalSet :
              /\ nodes[nodes[n].left].classid % 2 = 0
              /\ nodes[nodes[n].right].classid = nodes[nodes[n].left].classid + 1
        /\ pc \in {"mean_cov_left", "mean_cov_right"} =>
              nodes[nodes[next].left].classid = nextid

\* the 127th and last split of a run for 128 colours has handed out the ids
\* 254 and 255
C26_Witness ==
    /\ count = MaxCountWithoutWrap
    /\ Completed
    /\ SplitCount = MaxCountWithoutWrap - 1
    /\ nodes[nodes[next].left].classid = ByteRange - 2
    /\ nodes[nodes[next].right].classid = ByteRange - 1

-----------------------------------------------------------------------------
(* Leaves without pixels and the selection.                                  *)

\* no pixel carries the id of the leaf
WithoutPixels(n) == PixelsOf(classes, nodes[n].classid) = {}

\* C27: a leaf whose pixel set is empty (its statistics are NaN) is never
\* selected for splitting as long as at least one leaf has pixels.
C27_EmptyLeafNotSelected ==
    (pc \in {"get_next_classid", "partition_class"}
        /\ \E n \in LeafSet : ~WithoutPixels(n)) =>
        /\ next \in LeafSet
        /\ ~IsNaN(nodes[next].mean)
        /\ ~IsNaN(nodes[next].covariance)
        /\ ~WithoutPixels(next)

\* a leaf without pixels comes before the selected leaf in the order of the
\* walk, with NaN statistics, and was passed over
C27_Witness ==
    /\ pc = "partition_class"
    /\ \E k \in 1..Len(get_leaves(nodes, Root)) :
          /\ get_leaves(nodes, Root)[k] = next
          /\ \E j \in 1..(k - 1) :
                /\ WithoutPixels(get_leaves(nodes, Root)[j])
                /\ IsNaN(nodes[get_leaves(nodes, Root)[j]].covariance)

-----------------------------------------------------------------------------
(* CameraViewController: the photo button and the capture session.           *)

\* a block of the isRunning observer is waiting on the main queue
PendingPhotoButton ==
    \E k \in 1..Len(mainQueue) : mainQueue[k].kind = "photoButton"

\* viewDidLoad leaves the button disabled
DisabledByViewDidLoad ==
    (view = "unloaded" /\ view' # "unloaded") => ~photoButton'

\* after viewDidLoad the button takes a new value only in a block of the
\* observer, and the value is the one the observer was notified of
ChangedByObserverOnly ==
    (view # "unloaded" /\ photoButton' # photoButton) =>
        /\ OnMain("photoButton")
        /\ mainQueue' = Tail(mainQueue)
        /\ photoButton' = Head(mainQueue).isEnabled

\* whenever the session starts or stops running an observation is registered
\* and its block for the new value is put on the main queue
ObserverSeesEveryChange ==
    session'.running # session.running =>
        /\ Len(mainQueue') > Len(mainQueue)
        /\ mainQueue'[Len(mainQueue) + 1] =
              [kind |-> "photoButton", isEnabled |-> session'.running]
        /\ session'.running => keyValueObservations' = 1

\* viewWillDisappear was the last call of the life cycle and its block has run
StoppedByViewWillDisappear ==
    /\ view = "disappeared"
    /\ \A k \in 1..Len(sessionQueue) : sessionQueue[k] # "viewWillDisappear"

\* C28: the photo button is enabled if and only if the capture session is
\* running: viewDidLoad disables it, afterwards only the isRunning observer
\* changes it, the observer is registered by addObservers before startRunning
\* is called, so that once the observer's blocks have run on the main queue
\* the button shows whether the session is running, and after viewWillDisappear
\* has stopped the session the button is disabled again.
C28_PhotoButtonFollowsSession ==
    /\ [][DisabledByViewDidLoad /\ ChangedByObserverOnly
             /\ ObserverSeesEveryChange]_vars
    /\ []((view # "unloaded" /\ ~PendingPhotoButton) =>
             (photoButton <=> session.running))
    /\ (StoppedByViewWillDisappear ~> ~photoButton)

\* the session was running with the button enabled, the block of
\* viewWillDisappear has just stopped it, and the observer's block that
\* disables the button waits on the main queue
C28_Witness ==
    /\ StoppedByViewWillDisappear
    /\ photoButton
    /\ ~session.running
    /\ mainQueue = << [kind |-> "photoButton", isEnabled |-> FALSE] >>

-----------------------------------------------------------------------------
(* CameraViewController: authorization and the session queue.                *)

\* a block of the session queue is executed in this step
SessionBlockRuns ==
    sessionQueue # << >> /\ sessionQueue' = Tail(sessionQueue)

\* the blocks of the session queue run with the answer to the access request
\* known and recorded in setupResult
BlocksSeeFinalAuthorization ==
    SessionBlockRuns =>
        /\ ~suspended
        /\ accessRequest # "pending"
        /\ authorization # "notDetermined"
        /\ authorization = "denied" <=> setupResult = "notAuthorized"

\* inputs and outputs are attached, and the session is started, only with
\* setupResult = success
ConfiguredAndStartedOnSuccess ==
    /\ (session'.inputs # session.inputs \/ session'.outputs # session.outputs) =>
          /\ setupResult = "success"
          /\ authorization = "authorized"
    /\ (session'.running /\ ~session.running) =>
          /\ setupResult = "success"
          /\ setupResult' = "success"
          /\ session.inputs
          /\ session.outputs

\* C29: when the authorization is not yet determined the session queue is
\* suspended before configureSession is enqueued and resumed only after the
\* access request has completed, so configureSession and the block of
\* viewWillAppear observe the final authorization result; the session is
\* configured and started only if setupResult is success and never runs when
\* access was denied or the configuration failed.
C29_SetupAfterAuthorization ==
    /\ [](accessRequest = "pending" =>
             /\ suspended
             /\ sessionQueue # << >>
             /\ Head(sessionQueue) = "configureSession")
    /\ [][BlocksSeeFinalAuthorization /\ ConfiguredAndStartedOnSuccess]_vars
    /\ [](setupResult # "success" => ~session.running /\ ~isSessionRunning)
    /\ [](authorization = "denied" => session = NewSession)

\* access was requested and granted, and the session, configured by the
\* block that waited on the suspended queue, is running
C29_Witness ==
    /\ accessRequest = "granted"
    /\ session.inputs
    /\ session.outputs
    /\ session.running

====
